---- MODULE Spec2Model ----
(***************************************************************************)
(* Model of plugins/with-sqlite-vec/sqlite-vec-auto-init.c: the load-time  *)
(* constructor register_sqlite_vec, which hands the address of             *)
(* sqlite3_vec_init to the vendored host's exsqlite3_auto_extension and    *)
(* reports the status on the standard error stream.                        *)
(*                                                                         *)
(* The host SQLite is not part of the file.  It is modelled by its         *)
(* auto-extension contract: a process-wide list of entry points, a         *)
(* registration call that either succeeds (status 0, the entry point is on *)
(* the list afterwards, a duplicate is not added twice) or fails (non-zero *)
(* status, list untouched), and an open that invokes every listed entry    *)
(* point on the new connection.                                            *)
(***************************************************************************)
EXTENDS Integers, Sequences, FiniteSets, TLC

VARIABLES
  pc,       \* position of the process in register_sqlite_vec
  rc,       \* the local `int rc` of the active/last invocation: {} before line 25 has assigned it, {v} after
  aExt,     \* host: the process-wide auto-extension list
  stderr,   \* the lines written to the standard error stream
  conns,    \* host: the database connections opened so far
  runs,     \* number of invocations of register_sqlite_vec started
  done,     \* number of invocations that have returned
  nCalls,   \* number of calls of exsqlite3_auto_extension made by this file
  trace,    \* the foreign calls made by the current/last invocation, in order
  others    \* the entry points registered by other code of the process, in order

vars == <<pc, rc, aExt, stderr, conns, runs, done, nCalls, trace, others>>

----------------------------------------------------------------------------
(* Bounds *)

\* connections the environment opens
MaxConns == 2
\* direct re-invocations of register_sqlite_vec by a harness
MaxRecalls == 1
\* entry points other code of the process may register
NumOther == 2

----------------------------------------------------------------------------
(* Values *)

\* the address of the extension's entry point (line 15)
sqlite3_vec_init == <<"sqlite3_vec_init", 0>>

OtherExts == {<<"other", i>> : i \in 1..NumOther}

\* the non-zero statuses the host is made to return: a negative value, the
\* generic error, out-of-memory, and a multi-digit extended code
FailCodes == {-1, 1, 7, 266}

DigitChar == <<"0", "1", "2", "3", "4", "5", "6", "7", "8", "9">>

RECURSIVE Digits(_)
Digits(n) ==
  IF n < 10 THEN <<DigitChar[n + 1]>>
  ELSE Digits(n \div 10) \o <<DigitChar[(n % 10) + 1]>>

\* printf's %d conversion of an int
FmtD(n) == IF n < 0 THEN <<"-">> \o Digits(-n) ELSE Digits(n)

\* one fprintf: the format string and its converted arguments
Line(fmt, args) == [fmt |-> fmt, args |-> args]

InitLine == Line("[sqlite-vec] Initializing...\n", <<>>)

SuccessLine == Line("[sqlite-vec] SUCCESS: Registered with ExpoSQLite (exsqlite3)\n", <<>>)

FailureLine(r) ==
  Line("[sqlite-vec] FAILURE: Could not register extension (Error: %d)\n", FmtD(r))

\* mutant: the address of some other function is cast and passed
EntryPointArg_wrong == <<"other", 1>>

\* the argument of the registration call: (sqlite3_loadext_entry)sqlite3_vec_init
EntryPointArg == sqlite3_vec_init

\* mutant: only negative statuses are treated as failures
IsOk_nonneg(r) == r >= 0

\* the test of line 27
IsOk(r) == r = 0

----------------------------------------------------------------------------
(* Host *)

Contains(list, x) == \E i \in 1..Len(list) : list[i] = x

\* list after a successful registration of x
Registered(list, x) == IF Contains(list, x) THEN list ELSE Append(list, x)

\* the entry points the host invokes on a newly opened connection
AutoLoaded(list) == {list[i] : i \in 1..Len(list)}

\* a statement on connection c that references a vector-extension function
QueryVec(c) == IF sqlite3_vec_init \in c.inv THEN "ok" ELSE "unknown function"

----------------------------------------------------------------------------
(* Initial state: the library is not loaded yet; other code may already    *)
(* have registered entry points of its own.                                *)

NoDup(s) == \A i, j \in 1..Len(s) : i # j => s[i] # s[j]

InitLists == {s \in UNION {[1..n -> OtherExts] : n \in 0..NumOther} : NoDup(s)}

Init ==
  /\ pc = "unloaded"
  /\ rc = {}
  /\ aExt \in InitLists
  /\ others = aExt
  /\ stderr = <<>>
  /\ conns = <<>>
  /\ runs = 0
  /\ done = 0
  /\ nCalls = 0
  /\ trace = <<>>

----------------------------------------------------------------------------
(* register_sqlite_vec *)

\* entry of an invocation: a fresh frame
Enter ==
  /\ pc' = "L22"
  /\ rc' = {}
  /\ runs' = runs + 1
  /\ trace' = <<>>
  /\ UNCHANGED <<aExt, stderr, conns, done, nCalls, others>>

\* the library-loading mechanism runs the constructor
Load ==
  /\ pc = "unloaded"
  /\ Enter

\* mutant: the start of the initialization is not reported
Fprintf22_silent ==
  /\ pc = "L22"
  /\ pc' = "L25"
  /\ UNCHANGED <<rc, aExt, stderr, conns, runs, done, nCalls, trace, others>>

\* line 22
Fprintf22 ==
  /\ pc = "L22"
  /\ stderr' = Append(stderr, InitLine)
  /\ trace' = Append(trace, [op |-> "fprintf", line |-> InitLine])
  /\ pc' = "L25"
  /\ UNCHANGED <<rc, aExt, conns, runs, done, nCalls, others>>

\* mutant: the registration is attempted a second time when the first fails
Call25_twice ==
  /\ pc = "L25"
  /\ \E r1 \in {0} \cup FailCodes :
       \E r \in (IF r1 = 0 THEN {0} ELSE {0} \cup FailCodes) :
         /\ aExt' = IF r = 0 THEN Registered(aExt, EntryPointArg) ELSE aExt
         /\ rc' = {r}
         /\ trace' = trace \o
              (IF r1 = 0 THEN <<>>
               ELSE <<[op |-> "exsqlite3_auto_extension",
                       arg |-> EntryPointArg, ret |-> r1]>>) \o
              <<[op |-> "exsqlite3_auto_extension",
                 arg |-> EntryPointArg, ret |-> r]>>
         /\ nCalls' = nCalls + (IF r1 = 0 THEN 1 ELSE 2)
  /\ pc' = "L27"
  /\ UNCHANGED <<stderr, conns, runs, done, others>>

\* mutant: the entry point is called directly instead of being registered
Call25_direct ==
  /\ pc = "L25"
  /\ \E r \in {0} \cup FailCodes :
       /\ rc' = {r}
       /\ trace' = Append(trace, [op |-> "sqlite3_vec_init",
                                  arg |-> EntryPointArg, ret |-> r])
  /\ pc' = "L27"
  /\ UNCHANGED <<aExt, stderr, conns, runs, done, nCalls, others>>

\* line 25: the registration call and the assignment of its status
Call25 ==
  /\ pc = "L25"
  /\ \E r \in {0} \cup FailCodes :
       /\ aExt' = IF r = 0 THEN Registered(aExt, EntryPointArg) ELSE aExt
       /\ rc' = {r}
       /\ trace' = Append(trace, [op |-> "exsqlite3_auto_extension",
                                  arg |-> EntryPointArg, ret |-> r])
  /\ nCalls' = nCalls + 1
  /\ pc' = "L27"
  /\ UNCHANGED <<stderr, conns, runs, done, others>>

\* mutant: a failed registration halts the process after the diagnostic
Outcome27_abort ==
  /\ pc = "L27"
  /\ \E r \in rc :
       LET l == IF IsOk(r) THEN SuccessLine ELSE FailureLine(r) IN
         /\ stderr' = Append(stderr, l)
         /\ trace' = Append(trace, [op |-> "fprintf", line |-> l])
         /\ pc' = IF IsOk(r) THEN "L32" ELSE "aborted"
  /\ UNCHANGED <<rc, aExt, conns, runs, done, nCalls, others>>

\* mutant: a failed registration goes back to line 25
Outcome27_retry ==
  /\ pc = "L27"
  /\ \E r \in rc :
       LET l == IF IsOk(r) THEN SuccessLine ELSE FailureLine(r) IN
         /\ stderr' = Append(stderr, l)
         /\ trace' = Append(trace, [op |-> "fprintf", line |-> l])
         /\ pc' = IF IsOk(r) \/ nCalls > runs THEN "L32" ELSE "L25"
  /\ UNCHANGED <<rc, aExt, conns, runs, done, nCalls, others>>

\* mutant: a failed registration clears the host's list
Outcome27_reset ==
  /\ pc = "L27"
  /\ \E r \in rc :
       LET l == IF IsOk(r) THEN SuccessLine ELSE FailureLine(r) IN
         /\ stderr' = Append(stderr, l)
         /\ trace' = Append(trace, [op |-> "fprintf", line |-> l])
         /\ aExt' = IF IsOk(r) THEN aExt ELSE <<>>
  /\ pc' = "L32"
  /\ UNCHANGED <<rc, conns, runs, done, nCalls, others>>

\* lines 27-31
Outcome27 ==
  /\ pc = "L27"
  /\ \E r \in rc :
       LET l == IF IsOk(r) THEN SuccessLine ELSE FailureLine(r) IN
         /\ stderr' = Append(stderr, l)
         /\ trace' = Append(trace, [op |-> "fprintf", line |-> l])
  /\ pc' = "L32"
  /\ UNCHANGED <<rc, aExt, conns, runs, done, nCalls, others>>

\* line 32
Return32 ==
  /\ pc = "L32"
  /\ pc' = "returned"
  /\ done' = done + 1
  /\ UNCHANGED <<rc, aExt, stderr, conns, runs, nCalls, trace, others>>

Run == Fprintf22 \/ Call25 \/ Outcome27 \/ Return32

----------------------------------------------------------------------------
(* Environment *)

\* other code of the process registers an entry point of its own
OtherRegister ==
  /\ pc # "aborted"
  /\ \E x \in OtherExts :
       /\ ~Contains(aExt, x)
       /\ aExt' = Append(aExt, x)
       /\ others' = Append(others, x)
  /\ UNCHANGED <<pc, rc, stderr, conns, runs, done, nCalls, trace>>

\* the application opens a database connection
OpenConnection ==
  /\ pc # "aborted"
  /\ Len(conns) < MaxConns
  /\ conns' = Append(conns, [inv |-> AutoLoaded(aExt), after |-> done >= 1])
  /\ UNCHANGED <<pc, rc, aExt, stderr, runs, done, nCalls, trace, others>>

\* a harness calls register_sqlite_vec again after it has returned
Recall ==
  /\ pc = "returned"
  /\ runs < 1 + MaxRecalls
  /\ Enter

----------------------------------------------------------------------------

Next == Load \/ Run \/ OtherRegister \/ OpenConnection

Spec == Init /\ [][Next]_vars

NextHarness == Next \/ Recall

SpecHarness == Init /\ [][NextHarness]_vars

\* straight-line code: once entered, the function keeps taking its steps
LiveSpec == SpecHarness /\ WF_vars(Run)

----------------------------------------------------------------------------
(* Helpers of the properties *)

DigitValue(ch) == CHOOSE d \in 0..9 : DigitChar[d + 1] = ch

RECURSIVE ParseDigits(_)
ParseDigits(s) ==
  IF s = <<>> THEN 0
  ELSE 10 * ParseDigits(SubSeq(s, 1, Len(s) - 1)) + DigitValue(s[Len(s)])

\* the number a decimal text denotes
ParseD(s) == IF s[1] = "-" THEN 0 - ParseDigits(Tail(s)) ELSE ParseDigits(s)

InFunction == pc \in {"L22", "L25", "L27", "L32"}

AfterOutcome == pc \in {"L32", "returned"}

\* the fprintf events of the current invocation that use format line l
Written(l) ==
  {i \in 1..Len(trace) : trace[i].op = "fprintf" /\ trace[i].line.fmt = l.fmt}

\* the host-registration calls of the current invocation
RegCalls == {i \in 1..Len(trace) : trace[i].op = "exsqlite3_auto_extension"}

FailureFmt == FailureLine(0).fmt

VecCount == Cardinality({i \in 1..Len(aExt) : aExt[i] = sqlite3_vec_init})

NotVec(x) == x # sqlite3_vec_init

----------------------------------------------------------------------------
(* C1 *)

\* C1 as stated: every connection opened after the constructor has run has
\* had sqlite3_vec_init invoked on it, and a vector query on it succeeds.
C1_AsStated ==
  \A i \in 1..Len(conns) :
    conns[i].after =>
      sqlite3_vec_init \in conns[i].inv /\ QueryVec(conns[i]) = "ok"

\* C1 (amended): every connection opened after the constructor has run and
\* its registration call returned 0 has had sqlite3_vec_init invoked on it,
\* and a query referencing a vector-extension function on it succeeds.
C1_Registered ==
  \A i \in 1..Len(conns) :
    (conns[i].after /\ rc = {0}) =>
      sqlite3_vec_init \in conns[i].inv /\ QueryVec(conns[i]) = "ok"

C1_Witness ==
  \E i \in 1..Len(conns) :
    conns[i].after /\ rc = {0} /\ QueryVec(conns[i]) = "ok"

----------------------------------------------------------------------------
(* C2 *)

\* C2: once the outcome has been reported, a status of 0 has produced exactly
\* the SUCCESS line and no FAILURE line; a non-zero status, positive or
\* negative, has produced exactly the FAILURE line, whose number reads back
\* as that status, and no SUCCESS line; the line is the last one on stderr.
C2_Diagnostic ==
  AfterOutcome =>
    \A r \in rc :
      /\ r = 0 =>
           /\ Cardinality(Written(SuccessLine)) = 1
           /\ Written(FailureLine(r)) = {}
           /\ stderr[Len(stderr)] = SuccessLine
      /\ r # 0 =>
           /\ Cardinality(Written(FailureLine(r))) = 1
           /\ Written(SuccessLine) = {}
           /\ stderr[Len(stderr)].fmt = FailureFmt
           /\ ParseD(stderr[Len(stderr)].args) = r
           /\ \A i \in Written(FailureLine(r)) : ParseD(trace[i].line.args) = r

C2_Witness ==
  /\ AfterOutcome
  /\ \E r \in rc : r < 0
  /\ stderr[Len(stderr)].fmt = FailureFmt

----------------------------------------------------------------------------
(* C3 *)

\* C3: the process is never halted by the function; after a non-zero status
\* the function can still return and connections can still be opened; and a
\* connection opened after the constructor has had sqlite3_vec_init invoked
\* on it exactly when the registration call returned 0.
C3_BestEffort ==
  /\ pc # "aborted"
  /\ (pc = "L32" /\ rc # {0}) => ENABLED Return32
  /\ (pc = "returned" /\ rc # {0} /\ Len(conns) < MaxConns) => ENABLED OpenConnection
  /\ \A i \in 1..Len(conns) :
       conns[i].after => (sqlite3_vec_init \in conns[i].inv <=> rc = {0})

C3_Witness ==
  /\ pc = "returned"
  /\ rc # {0}
  /\ \E i \in 1..Len(conns) :
       conns[i].after /\ sqlite3_vec_init \notin conns[i].inv /\ conns[i].inv # {}

----------------------------------------------------------------------------
(* C4 *)

\* C4: once register_sqlite_vec has been invoked two or more times, the
\* host's list holds sqlite3_vec_init at most once, its other entries are
\* exactly those the other code registered, in their order, and the repeated
\* invocation is not halted and can return whatever status it got.
C4_ListIntact ==
  runs >= 2 =>
    /\ VecCount <= 1
    /\ SelectSeq(aExt, NotVec) = others
    /\ pc # "aborted"
    /\ pc = "L32" => ENABLED Return32

C4_Witness ==
  /\ done >= 2
  /\ rc # {0}
  /\ VecCount = 1
  /\ Len(others) >= 1

----------------------------------------------------------------------------
(* C5 *)

C5_OneCall ==
  /\ pc # "aborted"
  /\ pc \in {"L22", "L25"} => (RegCalls = {} /\ nCalls = runs - 1)
  /\ pc \in {"L27", "L32", "returned"} => (Cardinality(RegCalls) = 1 /\ nCalls = runs)

\* C5: each invocation calls exsqlite3_auto_extension exactly once whatever
\* the status (none before line 25, one after, never a second), is never
\* halted, and every invocation that has started returns.
C5_OneCallAndTerminates ==
  /\ []C5_OneCall
  /\ (InFunction ~> pc = "returned")

C5_Witness ==
  /\ pc = "returned"
  /\ rc # {0}
  /\ Cardinality(RegCalls) = 1

----------------------------------------------------------------------------
(* C6 *)

\* C6: with the function run only by the library-loading mechanism, it is
\* entered at most once in the process and the host's registration function
\* is called by it at most once; no call of it creates a thread.
C6_OneShot ==
  /\ runs <= 1
  /\ nCalls <= 1
  /\ \A i \in 1..Len(trace) : trace[i].op # "pthread_create"
  /\ pc = "unloaded" => (runs = 0 /\ nCalls = 0)

C6_Witness ==
  /\ pc = "returned"
  /\ runs = 1
  /\ nCalls = 1
  /\ Len(conns) >= 1

----------------------------------------------------------------------------
(* C7 *)

\* C7: an invocation's foreign calls are, in order, the fprintf of the
\* 'Initializing...' line, the registration call, and the fprintf of one
\* outcome line: nothing is written before line 22, only the first line
\* before the call, and each returned invocation has added two lines.
C7_Order ==
  /\ pc = "L22" => trace = <<>>
  /\ pc \in {"L25", "L27", "L32", "returned"} =>
       (Len(trace) >= 1 /\ trace[1].op = "fprintf" /\ trace[1].line = InitLine)
  /\ pc = "L25" => Len(trace) = 1
  /\ pc \in {"L27", "L32", "returned"} =>
       (Len(trace) >= 2 /\ trace[2].op = "exsqlite3_auto_extension")
  /\ pc = "L27" => Len(trace) = 2
  /\ AfterOutcome =>
       /\ Len(trace) = 3
       /\ trace[3].op = "fprintf"
       /\ trace[3].line \in {SuccessLine} \cup {FailureLine(r) : r \in FailCodes}
       /\ SubSeq(stderr, Len(stderr) - 1, Len(stderr)) = <<InitLine, trace[3].line>>
  /\ Len(stderr) = 2 * done + (CASE pc = "L25" -> 1
                                 [] pc = "L27" -> 1
                                 [] pc = "L32" -> 2
                                 [] OTHER -> 0)

C7_Witness ==
  /\ pc = "returned"
  /\ done = 2
  /\ Len(stderr) = 4
  /\ stderr[2] = SuccessLine
  /\ stderr[4].fmt = FailureFmt

----------------------------------------------------------------------------
(* C8 *)

C8_OnlyRegisters ==
  \A i \in 1..Len(trace) :
    /\ trace[i].op \in {"fprintf", "exsqlite3_auto_extension"}
    /\ trace[i].op = "exsqlite3_auto_extension" => trace[i].arg = sqlite3_vec_init

C8_Step ==
  pc' # pc =>
    /\ conns' = conns
    /\ others' = others
    /\ aExt' # aExt => (pc = "L25" /\ aExt' = Append(aExt, sqlite3_vec_init))
    /\ stderr' # stderr => pc \in {"L22", "L27"}
    /\ nCalls' # nCalls => (pc = "L25" /\ nCalls' = nCalls + 1)

\* C8: a step of register_sqlite_vec changes only the host's list (only at
\* its one registration call, only by adding sqlite3_vec_init) and stderr;
\* the only value handed to the host is the address of sqlite3_vec_init, and
\* sqlite3_vec_init is never called by the function itself.
C8_Frame == []C8_OnlyRegisters /\ [][C8_Step]_vars

C8_Witness ==
  /\ pc = "returned"
  /\ Len(conns) >= 1
  /\ Len(others) >= 1
  /\ VecCount = 1
  /\ Len(aExt) = Len(others) + 1

====
